---- MODULE Spec2Model ----
(***************************************************************************)
(* The IMPALA agent of legacy/impala (agent.py): Agent.__init__,           *)
(* Agent.choose_action, Agent.learn and Agent.checkpoint, with the V-trace *)
(* estimator that learn calls once per trajectory.                         *)
(*                                                                         *)
(* Numbers are exact rationals <<n, d>> (d > 0, lowest terms).             *)
(* Log-probabilities and entropies are integers or rationals in units of   *)
(* ln 2, so exp(pi - mu) is Pow2(pi - mu).                                 *)
(***************************************************************************)
EXTENDS Integers, Sequences, FiniteSets, TLC

VARIABLES cfg, agent, th, consumed, out, vt

vars == <<cfg, agent, th, consumed, out, vt>>

(***************************************************************************)
(* Bounds of the model.                                                    *)
(***************************************************************************)
\* the largest number of timesteps (sum of trajectory lengths) in one batch
MaxBatchSteps == 3
\* learn is not started once total_timestep would pass this
MaxTimestep == 4
\* the longest trajectory handed to the V-trace estimator on its own
MaxT == 2
\* the largest number of timesteps in a batch with a malformed trajectory
MaxMalformedSteps == 2

(***************************************************************************)
(* Exact rational arithmetic.                                              *)
(***************************************************************************)
Abs(x) == IF x < 0 THEN -x ELSE x

RECURSIVE Gcd(_, _)
Gcd(a, b) == IF b = 0 THEN a ELSE Gcd(b, a % b)

Rat(n, d) ==
    LET g == Gcd(Abs(n), Abs(d))
        s == IF d < 0 THEN -1 ELSE 1
    IN  <<s * (n \div g), s * (d \div g)>>

RInt(k) == <<k, 1>>
Zero == RInt(0)
One == RInt(1)
Half == <<1, 2>>

\* the operations are defined on rationals with positive denominators
RAdd(a, b) ==
    CASE a[2] > 0 /\ b[2] > 0 ->
        LET g == Gcd(a[2], b[2])
        IN  Rat(a[1] * (b[2] \div g) + b[1] * (a[2] \div g), a[2] * (b[2] \div g))

RNeg(a) == <<-a[1], a[2]>>

RSub(a, b) ==
    CASE a[2] > 0 /\ b[2] > 0 -> RAdd(a, <<-b[1], b[2]>>)

RMul(a, b) ==
    CASE a[1] = 0 \/ b[1] = 0 -> <<0, 1>>
      [] a[1] = 1 /\ a[2] = 1 -> b
      [] b[1] = 1 /\ b[2] = 1 -> a
      [] OTHER ->
        LET g1 == Gcd(Abs(a[1]), b[2])
            g2 == Gcd(Abs(b[1]), a[2])
        IN  <<(a[1] \div g1) * (b[1] \div g2), (a[2] \div g2) * (b[2] \div g1)>>

RDivInt(a, k) == Rat(a[1], a[2] * k)

RLe(a, b) == a[1] * b[2] <= b[1] * a[2]

RMin(a, b) == IF RLe(a, b) THEN a ELSE b

RSign(a) == IF a[1] > 0 THEN 1 ELSE IF a[1] < 0 THEN -1 ELSE 0

RECURSIVE IntPow2(_)
IntPow2(k) == IF k = 0 THEN 1 ELSE 2 * IntPow2(k - 1)

\* exp(k ln 2)
Pow2(k) == IF k >= 0 THEN <<IntPow2(k), 1>> ELSE <<1, IntPow2(-k)>>

RECURSIVE RSum(_)
RSum(s) == IF s = <<>> THEN Zero ELSE RAdd(Head(s), RSum(Tail(s)))

RECURSIVE Sum(_)
Sum(s) == IF s = <<>> THEN 0 ELSE Head(s) + Sum(Tail(s))

\* a function on 1..n as a sequence value
Tup(f) == f \o <<>>

RECURSIVE Flatten(_)
Flatten(ss) == IF ss = <<>> THEN <<>> ELSE Head(ss) \o Flatten(Tail(ss))

Min(a, b) == IF a <= b THEN a ELSE b

(***************************************************************************)
(* The network: feature_network, action_head and V_head.  theta stands for *)
(* all parameters; an observation is 0 or 1.  The action head gives either *)
(* a peaked distribution (action 0 with probability 1) or the distribution *)
(* (1/2, 1/4, 1/4) over the actions 0, 1, 2.                               *)
(***************************************************************************)
Params == {0, 1}
Obs == {0, 1}
Actions == {0, 1, 2}

Peaked(theta, o) == (theta + o) % 2 = 0

\* action_dist.sample(): the actions the distribution can return
Support(theta, o) == IF Peaked(theta, o) THEN {0} ELSE Actions

\* action_dist.log_prob(action), in units of ln 2
LogProb(theta, o, a) ==
    IF Peaked(theta, o) THEN 0 ELSE IF a = 0 THEN -1 ELSE -2

\* action_dist.entropy(), in units of ln 2
Entropy(theta, o) == IF Peaked(theta, o) THEN Zero ELSE <<3, 2>>

\* V_head(feature_network(obs))
Value(theta, o) == Rat(theta + o, 2)

(***************************************************************************)
(* Tensors: a flat sequence with its number of dimensions.                 *)
(***************************************************************************)
\* x.squeeze(): every dimension of size 1 is dropped, so a tensor of one
\* element becomes 0-dimensional
Squeeze(data) == [dim |-> IF Len(data) = 1 THEN 0 ELSE 1, data |-> data]

RECURSIVE Slices(_, _)
Slices(data, sizes) ==
    IF sizes = <<>> THEN <<>>
    ELSE <<SubSeq(data, 1, Head(sizes))>>
         \o Slices(SubSeq(data, Head(sizes) + 1, Len(data)), Tail(sizes))

\* x.split(sizes): an error on a 0-dimensional tensor or when the sizes do
\* not sum to the tensor's length
SplitOk(x, sizes) == x.dim = 1 /\ Sum(sizes) = Len(x.data)

Split(x, sizes) == Slices(x.data, sizes)

\* elementwise operations broadcast a tensor of one element
BroadcastOk(m, n) == m = n \/ m = 1 \/ n = 1

At(s, i) == IF Len(s) = 1 THEN s[1] ELSE s[i]

Max(a, b) == IF a >= b THEN a ELSE b

RMean(s) == RDivInt(RSum(s), Len(s))

(***************************************************************************)
(* The V-trace estimator (lagom.metric.vtrace).  Arguments in the order of *)
(* learn's call.  done[t] is true at the last step of a trajectory that    *)
(* reached a terminal state.                                               *)
(***************************************************************************)
VtraceShapesOk(blp, lp, Rs, V) ==
    Len(blp) = Len(V) /\ Len(lp) = Len(V) /\ Len(Rs) = Len(V) /\ Len(V) >= 1

RECURSIVE VtraceFrom(_, _, _, _, _, _, _, _, _, _)
\* <<vtarget[t .. T], advantage[t .. T]>>, computed backward from T
VtraceFrom(t, blp, lp, gamma, Rs, V, last_V, reach_terminal, clip_rho, clip_pg_rho) ==
    LET T == Len(V)
        rest == IF t = T THEN <<<<>>, <<>>>>
                ELSE VtraceFrom(t + 1, blp, lp, gamma, Rs, V, last_V,
                                reach_terminal, clip_rho, clip_pg_rho)
        ratio == Pow2(lp[t] - blp[t])
        rho == RMin(ratio, clip_rho)
        c == RMin(ratio, clip_pg_rho)
        done == reach_terminal /\ t = T
        nd == IF done THEN Zero ELSE One
        V_next == IF t < T THEN V[t + 1] ELSE last_V
        v_next == IF t < T THEN rest[1][1] ELSE last_V
        delta == RMul(rho, RSub(RAdd(Rs[t], RMul(gamma, RMul(V_next, nd))), V[t]))
        v == RAdd(RAdd(V[t], delta),
                  RMul(RMul(gamma, c), RMul(nd, RSub(v_next, V_next))))
        A == RMul(c, RSub(RAdd(Rs[t], RMul(gamma, RMul(nd, v_next))), V[t]))
    IN  \* one value target and one advantage per remaining step
        CASE Len(rest[1]) = T - t /\ Len(rest[2]) = T - t ->
            <<<<v>> \o rest[1], <<A>> \o rest[2]>>

vtrace(blp, lp, gamma, Rs, V, last_V, reach_terminal, clip_rho, clip_pg_rho) ==
    IF ~VtraceShapesOk(blp, lp, Rs, V)
    THEN [ok |-> FALSE, vs |-> <<>>, As |-> <<>>]
    ELSE LET r == VtraceFrom(1, blp, lp, gamma, Rs, V, last_V, reach_terminal,
                             clip_rho, clip_pg_rho)
         IN  [ok |-> TRUE, vs |-> r[1], As |-> r[2]]

\* the mutant of VtraceCall that never passes the terminal flag
VtraceCallNoTerminal(c, traj, behavior_logprob, logprob, V, last_V) ==
    vtrace(behavior_logprob, logprob, c.gamma, traj.rewards, V, last_V,
           FALSE, c.clip_rho, c.clip_pg_rho)


\* the mutant of VtraceCall that bootstraps from the last value estimate
\* instead of the value of the last observation
VtraceCallBootstrapFromV(c, traj, behavior_logprob, logprob, V, last_V) ==
    vtrace(behavior_logprob, logprob, c.gamma, traj.rewards, V, V[Len(V)],
           traj.terminal, c.clip_rho, c.clip_pg_rho)

\* learn's call of vtrace for one trajectory
VtraceCall(c, traj, behavior_logprob, logprob, V, last_V) ==
    vtrace(behavior_logprob, logprob, c.gamma, traj.rewards, V, last_V,
           traj.terminal, c.clip_rho, c.clip_pg_rho)


(***************************************************************************)
(* Trajectories and batches.  A trajectory holds its length T, its T       *)
(* non-final observations, the rows of its last observation, its rewards,  *)
(* its behavior log-probabilities and whether it reached a terminal state. *)
(***************************************************************************)
StepKinds == {[obs |-> 0, r |-> Zero, mu |-> 0], [obs |-> 1, r |-> One, mu |-> -1]}
EndKinds == {[last |-> 0, terminal |-> TRUE], [last |-> 1, terminal |-> FALSE]}

MkTraj(steps, e) ==
    [T |-> Len(steps),
     obs |-> [i \in 1..Len(steps) |-> steps[i].obs],
     last |-> <<e.last>>,
     rewards |-> [i \in 1..Len(steps) |-> steps[i].r],
     mu |-> [i \in 1..Len(steps) |-> steps[i].mu],
     terminal |-> e.terminal]

TrajsOfLen(n) == {MkTraj(steps, e) : steps \in [1..n -> StepKinds], e \in EndKinds}

RECURSIVE BatchesOfSteps(_)
\* the batches of well-formed trajectories with n timesteps in all
BatchesOfSteps(n) ==
    IF n = 0 THEN {<<>>}
    ELSE UNION {{<<tr>> \o rest : tr \in TrajsOfLen(k), rest \in BatchesOfSteps(n - k)}
                : k \in 1..n}

Batches(maxSteps) == UNION {BatchesOfSteps(n) : n \in 1..maxSteps}

\* the batches learn is called with
AllBatches == Batches(MaxBatchSteps)

WellFormed(traj) ==
    /\ Len(traj.obs) = traj.T
    /\ Len(traj.last) = 1
    /\ Len(traj.rewards) = traj.T
    /\ Len(traj.mu) = traj.T

Lens(D) == [j \in 1..Len(D) |-> D[j].T]

\* the position before trajectory j's first timestep in the flat sequences
RECURSIVE Offset(_, _)
Offset(D, j) == IF j = 1 THEN 0 ELSE Offset(D, j - 1) + D[j - 1].T

(***************************************************************************)
(* learn, lines 91-122: everything before the optimizer is touched.        *)
(* action_logprob is what choose_action returns for the sampled actions.    *)
(***************************************************************************)
SampleSpace(theta, x) ==
    {acts \in [1..Len(x) -> Actions] : \A i \in 1..Len(x) : acts[i] \in Support(theta, x[i])}

\* out['action_logprob'] of choose_action(x): the log-probabilities of the
\* actions it has just sampled, whatever actions the trajectories hold
SampledLogprobs(theta, x) ==
    {Tup([i \in 1..Len(x) |-> LogProb(theta, x[i], acts[i])]) : acts \in SampleSpace(theta, x)}

\* the mutant of ConcatOutputs that appends the outputs in reverse batch order
ConcatReversed(pieces) ==
    Flatten([j \in 1..Len(pieces) |-> pieces[Len(pieces) + 1 - j]])

\* np.concatenate(vs): the per-trajectory outputs in batch order
ConcatOutputs(pieces) == Flatten(pieces)

LearnForward(c, theta, D, action_logprob) ==
    LET Ts == Lens(D)
        behavior_logprobs == Tup([j \in 1..Len(D) |-> D[j].mu])
        x == Flatten([j \in 1..Len(D) |-> D[j].obs])
        logprobs == Squeeze(action_logprob)
        entropies == Squeeze(Tup([i \in 1..Len(x) |-> Entropy(theta, x[i])]))
        Vs == Squeeze(Tup([i \in 1..Len(x) |-> Value(theta, x[i])]))
        last_x == Flatten([j \in 1..Len(D) |-> D[j].last])
        last_Vs == Tup([i \in 1..Len(last_x) |-> Value(theta, last_x[i])])
        splitOk == SplitOk(logprobs, Ts) /\ SplitOk(Vs, Ts)
        lps == Split(logprobs, Ts)
        Vss == Split(Vs, Ts)
        \* zip stops at its shortest argument
        n == Min(Len(D), Len(last_Vs))
        calls == Tup([j \in 1..n |->
                    VtraceCall(c, D[j], behavior_logprobs[j], lps[j], Vss[j], last_Vs[j])])
        vs == ConcatOutputs([j \in 1..n |-> calls[j].vs])
        As == ConcatOutputs([j \in 1..n |-> calls[j].As])
        N == Len(logprobs.data)
        L == Max(N, Len(vs))
        policy_loss == Tup([i \in 1..L |->
                          RMul(RInt(-At(logprobs.data, i)), At(As, i))])
        entropy_loss == Tup([i \in 1..N |-> RNeg(entropies.data[i])])
        value_loss == Tup([i \in 1..L |->
                         LET d == RSub(At(Vs.data, i), At(vs, i)) IN RMul(d, d)])
        base == [err |-> "", D |-> D, theta0 |-> theta,
                 logprobs |-> logprobs, entropies |-> entropies, Vs |-> Vs,
                 last_Vs |-> last_Vs, vs |-> <<>>, As |-> <<>>,
                 policy_loss |-> Zero, entropy_loss |-> Zero, value_loss |-> Zero,
                 loss |-> [ln2 |-> Zero, one |-> Zero]]
    IN  IF ~splitOk THEN [base EXCEPT !.err = "split"]
        ELSE IF \E j \in 1..n : ~calls[j].ok THEN [base EXCEPT !.err = "vtrace"]
        ELSE IF n = 0 THEN [base EXCEPT !.err = "concatenate"]
        ELSE IF ~(logprobs.dim = 1 /\ entropies.dim = 1 /\ Vs.dim = 1)
             THEN [base EXCEPT !.err = "assert"]
        ELSE IF ~BroadcastOk(N, Len(vs)) THEN [base EXCEPT !.err = "broadcast"]
        ELSE [base EXCEPT
                !.vs = vs, !.As = As,
                !.policy_loss = RMean(policy_loss),
                !.entropy_loss = RMean(entropy_loss),
                !.value_loss = RMean(value_loss),
                !.loss = [ln2 |-> RAdd(RMean(policy_loss),
                                       RMul(c.entropy_coef, RMean(entropy_loss))),
                          one |-> RMul(c.value_coef, RMean(value_loss))]]


(***************************************************************************)
(* State.                                                                  *)
(*   cfg       the configuration the agent was built with                  *)
(*   agent     per agent: theta, the total_timestep buffer, the gradient   *)
(*             held by the parameters, the scheduler's last step argument  *)
(*   th        per caller: where it is in learn and learn's local values   *)
(*   consumed  per agent: timesteps of the batches of the learn calls that *)
(*             returned                                                    *)
(*   out       per caller: what its last call returned                     *)
(*   vt        inputs and result of a V-trace call on its own              *)
(***************************************************************************)
Callers == {1, 2}
Agents == {1, 2}

NoGrad == [state |-> "none", val |-> 0, zeroedBy |-> 0, accBy |-> {}, clippedBy |-> 0]
NoWork == [err |-> "idle"]
IdleCaller(a) ==
    [pc |-> "idle", a |-> a, w |-> NoWork, events |-> <<>>, lr_args |-> <<>>,
     steppedOn |-> NoGrad, grad_norm |-> 0]
NoOut == [kind |-> "none"]
NoVt == [kind |-> "none"]

\* Agent.__init__
NewAgent(c) ==
    [theta |-> 0, total_timestep |-> 0, grad |-> NoGrad,
     last_epoch |-> IF c.use_lr_scheduler THEN 0 ELSE -1]

Config(g, rho, pg_rho, use_lr) ==
    [gamma |-> g, clip_rho |-> rho, clip_pg_rho |-> pg_rho,
     use_lr_scheduler |-> use_lr, value_coef |-> Half, entropy_coef |-> <<1, 4>>,
     max_grad_norm |-> 1, obs_wrapper |-> TRUE]

\* the configurations the agent is built with
AgentConfigs == {Config(Half, One, One, TRUE), Config(Half, RInt(2), Half, FALSE)}

\* the configurations of a V-trace call on its own
VtraceConfigs ==
    {Config(g, cl[1], cl[2], TRUE) :
        g \in {Half, <<99, 100>>},
        cl \in {<<One, One>>, <<RInt(2), One>>, <<Half, RInt(2)>>}}

\* the abstract gradient of the loss: its direction
GradOf(w) == RSign(w.loss.ln2)

Clamp(v, m) == IF v > m THEN m ELSE IF v < -m THEN -m ELSE v

\* the steps of learn from the optimizer on, in program order
PcOrderClipAfterStep(c, pc) ==
    CASE pc = "zero_grad" -> "backward"
      [] pc = "backward" -> "step"
      [] pc = "step" -> "clip"
      [] pc = "clip" -> IF c.use_lr_scheduler THEN "lr_step" ELSE "finish"
      [] pc = "lr_step" -> "finish"
      [] OTHER -> "idle"

PcOrder(c, pc) ==
    CASE pc = "zero_grad" -> "backward"
      [] pc = "backward" -> "clip"
      [] pc = "clip" -> "step"
      [] pc = "step" -> IF c.use_lr_scheduler THEN "lr_step" ELSE "finish"
      [] pc = "lr_step" -> "finish"
      [] OTHER -> "idle"

Advance(t, ev) ==
    [th[t] EXCEPT !.pc = PcOrder(cfg, th[t].pc), !.events = @ \o <<ev>>]

\* choose_action(obs) for one observation, called by the driver
ChooseAction ==
    /\ th[1].pc = "idle"
    /\ \E o \in Obs : \E a \in Support(agent[1].theta, o) :
         out' = [out EXCEPT ![1] =
                   [kind |-> "action", action |-> a,
                    action_logprob |-> LogProb(agent[1].theta, o, a),
                    entropy |-> Entropy(agent[1].theta, o),
                    V |-> Value(agent[1].theta, o)]]
    /\ UNCHANGED <<cfg, agent, th, consumed, vt>>

\* checkpoint(logdir, num_iter)
Checkpoint ==
    /\ th[1].pc = "idle"
    /\ out' = [out EXCEPT ![1] =
                 [kind |-> "checkpoint",
                  saved |-> [theta |-> agent[1].theta,
                             total_timestep |-> agent[1].total_timestep],
                  obs_moments |-> cfg.obs_wrapper]]
    /\ UNCHANGED <<cfg, agent, th, consumed, vt>>

\* learn(D), lines 91-92: the call starts
LearnBegin(t, D) ==
    /\ th[t].pc = "idle"
    /\ agent[th[t].a].total_timestep + Sum(Lens(D)) <= MaxTimestep
    /\ th' = [th EXCEPT ![t] =
                [IdleCaller(th[t].a) EXCEPT !.pc = "forward", !.w = [err |-> "pending", D |-> D]]]
    /\ out' = [out EXCEPT ![t] = NoOut]
    /\ UNCHANGED <<cfg, agent, consumed, vt>>

\* learn, lines 93-122: the forward pass, V-trace, the losses; an error ends
\* the call
Forward(t) ==
    LET a == th[t].a
        D == th[t].w.D
        x == Flatten([j \in 1..Len(D) |-> D[j].obs])
    IN  /\ th[t].pc = "forward"
        /\ \E lp \in SampledLogprobs(agent[a].theta, x) :
             LET w == LearnForward(cfg, agent[a].theta, D, lp)
             IN  IF w.err # ""
                 THEN /\ out' = [out EXCEPT ![t] = [kind |-> "error", at |-> w.err, D |-> D]]
                      /\ th' = [th EXCEPT ![t] = IdleCaller(a)]
                 ELSE /\ out' = out
                      /\ th' = [th EXCEPT ![t].pc = "zero_grad", ![t].w = w]
        /\ UNCHANGED <<cfg, agent, consumed, vt>>

\* self.optimizer.zero_grad()
ZeroGrad(t) ==
    /\ th[t].pc = "zero_grad"
    /\ agent' = [agent EXCEPT ![th[t].a].grad =
                   [state |-> "zero", val |-> 0, zeroedBy |-> t, accBy |-> {}, clippedBy |-> 0]]
    /\ th' = [th EXCEPT ![t] = Advance(t, "zero_grad")]
    /\ UNCHANGED <<cfg, consumed, out, vt>>

\* loss.backward(): the gradient is added to what the parameters hold
Backward(t) ==
    /\ th[t].pc = "backward"
    /\ agent' = [agent EXCEPT ![th[t].a].grad =
                   [@ EXCEPT !.state = "raw", !.val = @ + GradOf(th[t].w),
                             !.accBy = @ \cup {t}, !.clippedBy = 0]]
    /\ th' = [th EXCEPT ![t] = Advance(t, "backward")]
    /\ UNCHANGED <<cfg, consumed, out, vt>>

\* grad_norm = nn.utils.clip_grad_norm_(self.parameters(), max_grad_norm)
ClipGradNorm(t) ==
    /\ th[t].pc = "clip"
    /\ agent' = [agent EXCEPT ![th[t].a].grad =
                   [@ EXCEPT !.state = "clipped", !.val = Clamp(@, cfg.max_grad_norm),
                             !.clippedBy = t]]
    /\ th' = [th EXCEPT ![t] =
                [Advance(t, "clip") EXCEPT !.grad_norm = Abs(agent[th[t].a].grad.val)]]
    /\ UNCHANGED <<cfg, consumed, out, vt>>

\* self.optimizer.step()
OptimizerStep(t) ==
    /\ th[t].pc = "step"
    /\ agent' = [agent EXCEPT ![th[t].a].theta = (@ - agent[th[t].a].grad.val) % 2]
    /\ th' = [th EXCEPT ![t] =
                [Advance(t, "step") EXCEPT !.steppedOn = agent[th[t].a].grad]]
    /\ UNCHANGED <<cfg, consumed, out, vt>>

\* the mutant of LrStepArg that passes the count with the current batch added
LrStepArgAfterCount(t) ==
    agent[th[t].a].total_timestep + Sum(Lens(th[t].w.D))

\* the argument of self.lr_scheduler.step(self.total_timestep)
LrStepArg(t) == agent[th[t].a].total_timestep

\* if use_lr_scheduler: self.lr_scheduler.step(self.total_timestep)
LrStep(t) ==
    /\ th[t].pc = "lr_step"
    /\ agent' = [agent EXCEPT ![th[t].a].last_epoch = LrStepArg(t)]
    /\ th' = [th EXCEPT ![t] =
                [Advance(t, "lr_step") EXCEPT !.lr_args = @ \o <<LrStepArg(t)>>]]
    /\ UNCHANGED <<cfg, consumed, out, vt>>

\* the mutant of CountedSteps that counts trajectories
CountedTrajectories(D) == Len(D)

\* sum([len(traj) for traj in D])
CountedSteps(D) == Sum(Lens(D))

\* learn's report, lines 132-143, with the call's record of what it did
Report(t) ==
    LET w == th[t].w
    IN  [kind |-> "report", has_current_lr |-> cfg.use_lr_scheduler,
         loss |-> w.loss, grad_norm |-> th[t].grad_norm,
         policy_loss |-> w.policy_loss, entropy_loss |-> w.entropy_loss,
         policy_entropy |-> RNeg(w.entropy_loss), value_loss |-> w.value_loss,
         V |-> w.Vs.data, events |-> th[t].events, lr_args |-> th[t].lr_args,
         steppedOn |-> th[t].steppedOn, D |-> w.D, theta0 |-> w.theta0]

\* self.total_timestep += sum(...), then the report is built and returned
Finish(t) ==
    /\ th[t].pc = "finish"
    /\ agent' = [agent EXCEPT ![th[t].a].total_timestep = @ + CountedSteps(th[t].w.D)]
    /\ consumed' = [consumed EXCEPT ![th[t].a] = @ + Sum(Lens(th[t].w.D))]
    /\ out' = [out EXCEPT ![t] = Report(t)]
    /\ th' = [th EXCEPT ![t] = IdleCaller(th[t].a)]
    /\ UNCHANGED <<cfg, vt>>

(***************************************************************************)
(* One driver calling choose_action, learn and checkpoint in sequence.     *)
(***************************************************************************)
Init ==
    /\ cfg \in AgentConfigs
    /\ agent = [a \in Agents |-> NewAgent(cfg)]
    /\ th = [t \in Callers |-> IdleCaller(1)]
    /\ consumed = [a \in Agents |-> 0]
    /\ out = [t \in Callers |-> NoOut]
    /\ vt = NoVt

Next ==
    \/ ChooseAction
    \/ Checkpoint
    \/ \E D \in AllBatches : LearnBegin(1, D)
    \/ Forward(1)
    \/ ZeroGrad(1)
    \/ Backward(1)
    \/ ClipGradNorm(1)
    \/ OptimizerStep(1)
    \/ LrStep(1)
    \/ Finish(1)

Spec == Init /\ [][Next]_vars


(***************************************************************************)
(* Properties of one driver's calls.                                       *)
(***************************************************************************)
\* the caller has the values of lines 93-122 and has not returned
PastForward(t) == th[t].pc \in {"zero_grad", "backward", "clip", "step", "lr_step", "finish"}

\* the forward pass has just ended
AfterForward(t) == th[t].pc = "zero_grad"

Slice(s, D, j) == SubSeq(s, Offset(D, j) + 1, Offset(D, j) + D[j].T)

LastValue(w, j) == Value(w.theta0, w.D[j].last[1])

\* the V-trace call for trajectory j of the batch, bootstrapped with last_V
CallFor(w, j, last_V) ==
    VtraceCall(cfg, w.D[j], w.D[j].mu, Slice(w.logprobs.data, w.D, j),
               Slice(w.Vs.data, w.D, j), last_V)

ImportanceWeight(w, j, i, clip) ==
    RMin(Pow2(Slice(w.logprobs.data, w.D, j)[i] - w.D[j].mu[i]), clip)

\* C1: for a trajectory that reached a terminal state, no value target of
\* that trajectory depends on the value of its last observation, and the
\* target at its last step is V[T] + rho[T] * (r[T] - V[T])
C1_TerminalBoundary ==
    AfterForward(1) =>
        LET w == th[1].w
        IN  \A j \in 1..Len(w.D) :
              w.D[j].terminal =>
                LET T == w.D[j].T
                    V == Slice(w.Vs.data, w.D, j)
                    mine == Slice(w.vs, w.D, j)
                IN  /\ CallFor(w, j, RAdd(LastValue(w, j), One)).vs = mine
                    /\ mine[T] = RAdd(V[T], RMul(ImportanceWeight(w, j, T, cfg.clip_rho),
                                                 RSub(w.D[j].rewards[T], V[T])))

C1_Witness ==
    /\ AfterForward(1)
    /\ \E j \in 1..Len(th[1].w.D) :
         /\ th[1].w.D[j].terminal
         /\ LastValue(th[1].w, j) # Zero
         /\ th[1].w.D[j].T = 2
         /\ th[1].w.D[j].rewards[2] = One

\* C3: the flat outputs of the batched forward pass and the concatenated
\* V-trace outputs hold, at position offset(j) + i, the values of step i of
\* trajectory j, and each trajectory's slice is processed with that
\* trajectory's own rewards, behavior log-probabilities, terminal flag and
\* last value
C3_BatchAlignment ==
    AfterForward(1) =>
        LET w == th[1].w
            N == Sum(Lens(w.D))
        IN  /\ Len(w.Vs.data) = N /\ Len(w.logprobs.data) = N
            /\ Len(w.entropies.data) = N /\ Len(w.vs) = N /\ Len(w.As) = N
            /\ Len(w.last_Vs) = Len(w.D)
            /\ \A j \in 1..Len(w.D) :
                 /\ \A i \in 1..w.D[j].T :
                      LET p == Offset(w.D, j) + i
                          o == w.D[j].obs[i]
                      IN  /\ w.Vs.data[p] = Value(w.theta0, o)
                          /\ w.entropies.data[p] = Entropy(w.theta0, o)
                          /\ \E a \in Support(w.theta0, o) :
                               w.logprobs.data[p] = LogProb(w.theta0, o, a)
                 /\ w.last_Vs[j] = LastValue(w, j)
                 /\ LET r == CallFor(w, j, LastValue(w, j))
                    IN  /\ Slice(w.vs, w.D, j) = r.vs
                        /\ Slice(w.As, w.D, j) = r.As

C3_Witness ==
    /\ AfterForward(1)
    /\ Len(th[1].w.D) = 2
    /\ th[1].w.D[1].T = 2 /\ th[1].w.D[2].T = 1
    /\ th[1].w.D[1].terminal /\ ~th[1].w.D[2].terminal
    /\ th[1].w.vs[1] # th[1].w.vs[3]

\* C5: total_timestep is 0 after construction, is always the sum of the
\* lengths of the trajectories of the batches consumed so far, never
\* decreases, and is left as it is by choose_action and checkpoint
C5_TimestepCounter ==
    [][/\ agent[1].total_timestep = consumed[1]
       /\ agent'[1].total_timestep = consumed'[1]
       /\ agent'[1].total_timestep >= agent[1].total_timestep
       /\ (out'[1].kind \in {"action", "checkpoint"})
             => agent'[1].total_timestep = agent[1].total_timestep]_vars

C5_Witness ==
    /\ out[1].kind = "checkpoint"
    /\ out[1].saved.total_timestep = 4
    /\ consumed[1] = 4

OptimizerOrder == <<"zero_grad", "backward", "clip", "step">>

\* C7: in one learn call the gradients are zeroed, then computed by the
\* backward pass, then clipped, then applied by the optimizer, each once and
\* in this order; the optimizer steps on the clipped gradients
C7_OptimizerOrder ==
    /\ LET e == th[1].events
           k == Min(Len(e), 4)
       IN  /\ SubSeq(e, 1, k) = SubSeq(OptimizerOrder, 1, k)
           /\ \A i \in 5..Len(e) : e[i] \notin {"zero_grad", "backward", "clip", "step"}
           /\ th[1].pc \in {"lr_step", "finish"} =>
                /\ k = 4
                /\ th[1].steppedOn.state = "clipped"
                /\ th[1].steppedOn.accBy = {1}
                /\ Abs(th[1].steppedOn.val) <= cfg.max_grad_norm
    /\ out[1].kind = "report" =>
         /\ SubSeq(out[1].events, 1, 4) = OptimizerOrder
         /\ out[1].steppedOn.state = "clipped"

C7_Witness ==
    /\ out[1].kind = "report"
    /\ out[1].events = <<"zero_grad", "backward", "clip", "step">>
    /\ out[1].steppedOn.val # 0

\* C9: for a batch of one or more trajectories, each with one or more steps,
\* the flat log-probabilities, entropies and values are one-dimensional with
\* the batch's total length, the split succeeds and the shape assertion holds
C9_ShapeAssertion ==
    /\ out[1].kind = "error" => out[1].at \notin {"split", "assert"}
    /\ PastForward(1) =>
         \A f \in {th[1].w.logprobs, th[1].w.entropies, th[1].w.Vs} :
            f.dim = 1 /\ Len(f.data) = Sum(Lens(th[1].w.D))

\* C10: with the scheduler enabled it is stepped once per learn call, after
\* the optimizer step, with the value of total_timestep from before this
\* batch is added (0 on the first call), and the report has current_lr; with
\* it disabled it is never stepped and the report has no current_lr
C10_LrScheduler ==
    /\ th[1].pc = "finish" =>
         /\ agent[1].total_timestep = consumed[1]
         /\ th[1].lr_args = IF cfg.use_lr_scheduler THEN <<consumed[1]>> ELSE <<>>
    /\ out[1].kind = "report" =>
         LET before == consumed[1] - Sum(Lens(out[1].D))
         IN  IF cfg.use_lr_scheduler
             THEN /\ out[1].lr_args = <<before>>
                  /\ out[1].events = OptimizerOrder \o <<"lr_step">>
                  /\ out[1].has_current_lr
                  /\ agent[1].last_epoch = before
             ELSE /\ out[1].lr_args = <<>>
                  /\ out[1].events = OptimizerOrder
                  /\ ~out[1].has_current_lr
    /\ ~cfg.use_lr_scheduler => agent[1].last_epoch = -1
    /\ consumed[1] = 0 => agent[1].last_epoch \in {0, -1}

C10_Witness ==
    /\ cfg.use_lr_scheduler
    /\ out[1].kind = "report"
    /\ out[1].lr_args = <<2>>
    /\ consumed[1] = 4


(***************************************************************************)
(* The V-trace call of learn's loop on one trajectory of its own: the      *)
(* inputs are drawn from small sets, the call is learn's.                  *)
(***************************************************************************)
VtraceInputs ==
    UNION {{[kind |-> "input",
             traj |-> [T |-> T, obs |-> [i \in 1..T |-> 0], last |-> <<0>>,
                       rewards |-> r, mu |-> mu, terminal |-> term],
             logprob |-> lp, V |-> V, last_V |-> lv]
            : r \in [1..T -> {Zero, One}], mu \in [1..T -> {-1, -2}],
              lp \in [1..T -> {-1, -2}], V \in [1..T -> {Half, One}],
              lv \in {Zero, Half}, term \in BOOLEAN}
           : T \in 1..MaxT}

InitVtrace ==
    /\ cfg \in VtraceConfigs
    /\ agent = [a \in Agents |-> NewAgent(cfg)]
    /\ th = [t \in Callers |-> IdleCaller(1)]
    /\ consumed = [a \in Agents |-> 0]
    /\ out = [t \in Callers |-> NoOut]
    /\ vt \in VtraceInputs

VtraceStep ==
    /\ vt.kind = "input"
    /\ vt' = [kind |-> "done", in |-> vt,
              res |-> VtraceCall(cfg, vt.traj, vt.traj.mu, vt.logprob, vt.V, vt.last_V)]
    /\ UNCHANGED <<cfg, agent, th, consumed, out>>

NextVtrace == VtraceStep

SpecVtrace == InitVtrace /\ [][NextVtrace]_vars

RECURSIVE NStepReturn(_, _, _, _, _)
\* the n-step bootstrapped returns G[t .. T]: G[t] = r[t] + gamma * G[t+1],
\* bootstrapped with last_V, or with 0 past a terminal step
NStepReturn(t, gamma, Rs, last_V, terminal) ==
    LET T == Len(Rs)
        rest == IF t = T THEN <<>> ELSE NStepReturn(t + 1, gamma, Rs, last_V, terminal)
        next == IF t < T THEN rest[1] ELSE IF terminal THEN Zero ELSE last_V
    IN  <<RAdd(Rs[t], RMul(gamma, next))>> \o rest

OnPolicy(in) == in.logprob = in.traj.mu

ClipsAtLeastOne == RLe(One, cfg.clip_rho) /\ RLe(One, cfg.clip_pg_rho)

ExampleInput(in) ==
    /\ cfg.gamma = <<99, 100>>
    /\ in.traj.T = 2
    /\ in.traj.rewards = <<One, One>>
    /\ in.V = <<Half, Half>>
    /\ in.last_V = Zero
    /\ in.traj.terminal

\* C2: on-policy (behavior log-probability = target log-probability at every
\* step) with both clip thresholds at least 1, every value target of the
\* V-trace call equals the n-step bootstrapped return; for T=2, gamma=0.99,
\* r=[1,1], V=[0.5,0.5], V_last=0, done=[False,True] the targets are 1.99, 1.0
C2_OnPolicyIsNStepReturn ==
    (vt.kind = "done" /\ OnPolicy(vt.in) /\ ClipsAtLeastOne) =>
        /\ vt.res.ok
        /\ vt.res.vs = NStepReturn(1, cfg.gamma, vt.in.traj.rewards, vt.in.last_V,
                                   vt.in.traj.terminal)
        /\ ExampleInput(vt.in) => vt.res.vs = <<<<199, 100>>, One>>

C2_Witness ==
    /\ vt.kind = "done" /\ OnPolicy(vt.in) /\ ClipsAtLeastOne
    /\ ExampleInput(vt.in)
    /\ vt.res.vs = <<<<199, 100>>, One>>


(***************************************************************************)
(* learn called with batches in which one trajectory is malformed.         *)
(***************************************************************************)
Shorter(s) == SubSeq(s, 1, Len(s) - 1)

\* the ways one trajectory's sequences can disagree with its length
Malformations(traj) ==
    {[traj EXCEPT !.rewards = Shorter(@)], [traj EXCEPT !.mu = Shorter(@)],
     [traj EXCEPT !.obs = Shorter(@)], [traj EXCEPT !.obs = @ \o <<0>>],
     [traj EXCEPT !.last = <<>>], [traj EXCEPT !.last = @ \o @]}

MalformedBatches ==
    UNION {UNION {{[D EXCEPT ![j] = m] : m \in Malformations(D[j])} : j \in 1..Len(D)}
           : D \in Batches(MaxMalformedSteps)}

NextMalformed ==
    \/ \E D \in MalformedBatches : LearnBegin(1, D)
    \/ Forward(1)
    \/ ZeroGrad(1)
    \/ Backward(1)
    \/ ClipGradNorm(1)
    \/ OptimizerStep(1)
    \/ LrStep(1)
    \/ Finish(1)

SpecMalformed == Init /\ [][NextMalformed]_vars

DetBatches == Batches(MaxT)

InitDet ==
    /\ cfg \in AgentConfigs
    /\ agent = [a \in Agents |-> NewAgent(cfg)]
    /\ th = [t \in Callers |-> IdleCaller(t)]
    /\ consumed = [a \in Agents |-> 0]
    /\ out = [t \in Callers |-> NoOut]
    /\ vt \in {[kind |-> "batch", D |-> D] : D \in DetBatches}

\* a caller's one learn call
LearnOnce(t, D) ==
    /\ out[t] = NoOut
    /\ LearnBegin(t, D)

\* each caller makes its one learn call, with the batch both are given
LearnSame(t) == LearnOnce(t, vt.D)

NextDet ==
    \E t \in Callers :
        \/ LearnSame(t)
        \/ Forward(t)
        \/ ZeroGrad(t)
        \/ Backward(t)
        \/ ClipGradNorm(t)
        \/ OptimizerStep(t)
        \/ LrStep(t)
        \/ Finish(t)

SpecDet == InitDet /\ [][NextDet]_vars

\* what learn returns to its caller
Returned(o) ==
    [loss |-> o.loss, grad_norm |-> o.grad_norm, policy_loss |-> o.policy_loss,
     entropy_loss |-> o.entropy_loss, policy_entropy |-> o.policy_entropy,
     value_loss |-> o.value_loss, V |-> o.V, has_current_lr |-> o.has_current_lr]

ConcBatches ==
    {<<MkTraj([i \in 1..MaxT |-> k], e)>> : k \in StepKinds, e \in EndKinds}

NextConc ==
    \E t \in Callers :
        \/ \E D \in ConcBatches : LearnOnce(t, D)
        \/ Forward(t)
        \/ ZeroGrad(t)
        \/ Backward(t)
        \/ ClipGradNorm(t)
        \/ OptimizerStep(t)
        \/ LrStep(t)
        \/ Finish(t)

SpecConc == Init /\ [][NextConc]_vars

\* between its zero_grad and its optimizer step
InGradientSection(t) == th[t].pc \in {"backward", "clip", "step"}

\* C8: the zero_grad / backward / clip / step sequences of two learn calls
\* on one agent never interleave, an optimizer step applies only gradients
\* zeroed, accumulated and clipped by its own call, and the timestep counter
\* ends at the sum of the lengths of both batches
C8_Atomic ==
    /\ ~(InGradientSection(1) /\ InGradientSection(2))
    /\ \A t \in Callers :
         th[t].pc \in {"lr_step", "finish"} =>
            /\ th[t].steppedOn.state = "clipped"
            /\ th[t].steppedOn.zeroedBy = t
            /\ th[t].steppedOn.accBy = {t}
            /\ th[t].steppedOn.clippedBy = t
    /\ (\A t \in Callers : th[t].pc = "idle") => agent[1].total_timestep = consumed[1]


====
